---- MODULE Spec2Model ----
(***************************************************************************)
(* The login command of fly (src/commands/login.go): LoginCommand.Execute, *)
(* the password grant, and the browser/manual token race of authCodeGrant  *)
(* with its two producers, listenForTokenCallback (one goroutine plus one  *)
(* goroutine per HTTP request served) and waitForTokenInput.               *)
(*                                                                         *)
(* Strings that the code parses (a line of standard input, the "token"     *)
(* query parameter) are sequences of characters; the four channels are     *)
(* unbuffered, so a send and its receive are one joint step.               *)
(***************************************************************************)
EXTENDS Integers, Sequences, FiniteSets, TLC

\* ------------------------------------------------------------------ bounds
MaxLineLen == 5
MaxTokenLen == 3
MaxRequests == 2
MaxPrompts == 2

\* ------------------------------------------------------------ input domains
Chars == {"a", " "}
Ports == {"49152", "49153"}
TargetURL == "https://ci.example.com"
StatusTemporaryRedirect == 307

RECURSIVE SeqsUpTo(_)
SeqsUpTo(n) ==
    IF n = 0 THEN {<< >>}
    ELSE LET shorter == SeqsUpTo(n - 1)
         IN  shorter \cup {Append(s, c) : s \in {t \in shorter : Len(t) = n - 1}, c \in Chars}

\* What one call of Scanf can find on standard input: the characters of a line
\* and what ends them, a newline or the end of the stream.
Inputs == [chars : SeqsUpTo(MaxLineLen), term : {"NL", "EOF"}]
\* The inputs the operator types in runs of the whole program: an empty line, one
\* token, two tokens, three tokens, and the end of the stream with nothing read.
SampleInputs ==
    {[chars |-> c, term |-> "NL"] :
        c \in {<< >>, <<"a">>, <<"a", " ", "a", "a">>, <<"a", " ", "a", " ", "a">>}}
    \cup {[chars |-> << >>, term |-> "EOF"]}
\* Values of the "token" query parameter (absent parameter: the empty string).
FormValues == SeqsUpTo(MaxTokenLen)
\* Strings a remote service may answer a password grant with.
GrantStrings == {<< >>, <<"a">>, <<"a", "a">>}

VARIABLES
    flyTarget,      \* Fly.Target
    args,           \* the positional arguments of Execute
    command,        \* LoginCommand: Username, Password
    pc,             \* where Execute (and authCodeGrant inside it) stands
    err,            \* the error Execute returned, "nil" for none
    port,           \* authCodeGrant's local port
    tokenStr,       \* authCodeGrant's local tokenStr
    tokenType,      \* Execute's local tokenType
    tokenValue,     \* Execute's local tokenValue
    accepted,       \* the cases the select of authCodeGrant has taken
    grantCalls,     \* calls of client.PasswordGrant
    listener,       \* the goroutine listenForTokenCallback
    handlers,       \* the goroutines serving one HTTP request each
    reader,         \* the goroutine waitForTokenInput
    stdinClosed,    \* standard input has reached its end
    stdout,         \* what has been printed
    saveCalls       \* the calls of rc.SaveTarget, in order

vars == <<flyTarget, args, command, pc, err, port, tokenStr, tokenType, tokenValue,
          accepted, grantCalls, listener, handlers, reader, stdinClosed, stdout,
          saveCalls>>

inputVars == <<flyTarget, args, command>>
mainVars == <<pc, err, port, tokenStr, tokenType, tokenValue, accepted, grantCalls>>

NoResponse == [status |-> 0, location |-> << >>]
NoInput == [chars |-> << >>, term |-> "none"]

Forgotten == [Username |-> "", Password |-> ""]

\* waitForTokenInput before it runs, and its locals at the top of each turn of
\* its loop (they are declared inside the loop).
NewReader == [pc |-> "idle", in |-> NoInput, count |-> 0, err |-> "nil",
              tokenType |-> << >>, tokenValue |-> << >>]

\* ------------------------------------------------------------ pure functions

RECURSIVE SkipSpace(_, _)
\* fmt's ss.SkipSpace over the characters of the line: the first index at or
\* after i that holds no space.
SkipSpace(s, i) ==
    IF i <= Len(s) /\ s[i] = " " THEN SkipSpace(s, i + 1) ELSE i

RECURSIVE TokenEnd(_, _)
\* fmt's ss.token(true, notSpace): the index after the run of non-spaces at i.
TokenEnd(s, i) ==
    IF i <= Len(s) /\ s[i] # " " THEN TokenEnd(s, i + 1) ELSE i

ScanfResult(n, e, t, v) == [count |-> n, err |-> e, tokenType |-> t, tokenValue |-> v]

\* Mutant of Scanf: the two operands are passed in the other order.
Scanf_Swapped(in) ==
    LET s == in.chars
        atEnd == IF in.term = "NL" THEN "unexpected newline" ELSE "EOF"
        i1 == SkipSpace(s, 1)
        j1 == TokenEnd(s, i1)
        i2 == SkipSpace(s, j1)
        j2 == TokenEnd(s, i2)
    IN  IF i1 > Len(s) THEN ScanfResult(0, atEnd, << >>, << >>)
        ELSE IF i2 > Len(s) THEN ScanfResult(1, atEnd, << >>, SubSeq(s, i1, j1 - 1))
        ELSE ScanfResult(2, "nil", SubSeq(s, i2, j2 - 1), SubSeq(s, i1, j1 - 1))

\* fmt.Scanf("%s %s", &tokenType, &tokenValue) on one input.  A newline where a
\* verb or the space of the format wants input is an error, and so is the end
\* of the stream; the operands scanned so far are counted.
Scanf(in) ==
    LET s == in.chars
        atEnd == IF in.term = "NL" THEN "unexpected newline" ELSE "EOF"
        i1 == SkipSpace(s, 1)
        j1 == TokenEnd(s, i1)
        i2 == SkipSpace(s, j1)
        j2 == TokenEnd(s, i2)
    IN  IF i1 > Len(s) THEN ScanfResult(0, atEnd, << >>, << >>)
        ELSE IF i2 > Len(s) THEN ScanfResult(1, atEnd, SubSeq(s, i1, j1 - 1), << >>)
        ELSE ScanfResult(2, "nil", SubSeq(s, i1, j1 - 1), SubSeq(s, i2, j2 - 1))

\* Mutant of JoinToken: the value is put before the type.
JoinToken_Swapped(t, v) == v \o <<" ">> \o t

\* tokenType + " " + tokenValue
JoinToken(t, v) == t \o <<" ">> \o v

RECURSIVE IndexOfSpace(_, _)
\* strings.Index(s, " ") from position i on, 0 when there is none.
IndexOfSpace(s, i) ==
    IF i > Len(s) THEN 0
    ELSE IF s[i] = " " THEN i
    ELSE IndexOfSpace(s, i + 1)

RECURSIVE LastIndexOfSpace(_, _)
LastIndexOfSpace(s, i) ==
    IF i = 0 THEN 0
    ELSE IF s[i] = " " THEN i
    ELSE LastIndexOfSpace(s, i - 1)

\* Mutant of SplitN: the string is cut at its last space.
SplitN_LastSpace(s) ==
    LET k == LastIndexOfSpace(s, Len(s))
    IN  IF k = 0 THEN <<s>>
        ELSE <<SubSeq(s, 1, k - 1), SubSeq(s, k + 1, Len(s))>>

\* strings.SplitN(s, " ", 2)
SplitN(s) ==
    LET k == IndexOfSpace(s, 1)
    IN  IF k = 0 THEN <<s>>
        ELSE <<SubSeq(s, 1, k - 1), SubSeq(s, k + 1, Len(s))>>

\* fmt.Sprintf("%s/public/fly_success", targetUrl)
SuccessURL(targetUrl) == <<targetUrl, "/public/fly_success">>

\* "http://127.0.0.1:" + port + "/auth/callback"
RedirectURL(p) == <<"http://127.0.0.1:", p, "/auth/callback">>

\* fmt.Printf("    %s/sky/login?redirect=%s\n", targetUrl, redirectUrl.String())
LoginURL(targetUrl, p) == <<targetUrl, "/sky/login?redirect=">> \o RedirectURL(p)

\* ----------------------------------------------------------------- initial

Init ==
    /\ flyTarget \in {"", "ci"}
    /\ args \in {<< >>, <<"extra">>}
    /\ command \in [Username : {"", "brock-samson"}, Password : {"", "secret"}]
    /\ pc = "start"
    /\ err = "nil"
    /\ port = ""
    /\ tokenStr = << >>
    /\ tokenType = << >>
    /\ tokenValue = << >>
    /\ accepted = << >>
    /\ grantCalls = 0
    /\ listener = [pc |-> "idle", port |-> "", err |-> "nil"]
    /\ handlers = << >>
    /\ reader = NewReader
    /\ stdinClosed = FALSE
    /\ stdout = [team |-> FALSE, url |-> << >>, prompts |-> 0, hints |-> 0,
                 blank |-> FALSE, saved |-> FALSE]
    /\ saveCalls = << >>

\* Execute returns e.
Return(e) ==
    /\ pc' = "returned"
    /\ err' = e

\* --------------------------------------------------------------- Execute

\* The target name, the CA certificate and the target itself.
ResolveTarget ==
    /\ pc = "start"
    /\ \/ /\ flyTarget = ""
          /\ Return("name for the target must be specified")
       \/ /\ flyTarget # ""
          /\ \E outcome \in {"ok", "ca cert unreadable", "unknown target"} :
                IF outcome = "ok"
                THEN pc' = "team" /\ err' = err
                ELSE Return(outcome)
    /\ UNCHANGED <<inputVars, port, tokenStr, tokenType, tokenValue, accepted, grantCalls,
                   listener, handlers, reader, stdinClosed, stdout, saveCalls>>

\* Prints the team, then rejects positional arguments.
CheckArgs ==
    /\ pc = "team"
    /\ stdout' = [stdout EXCEPT !.team = TRUE]
    /\ IF Len(args) # 0
       THEN Return("unexpected argument")
       ELSE pc' = "validate" /\ err' = err
    /\ UNCHANGED <<inputVars, port, tokenStr, tokenType, tokenValue, accepted, grantCalls,
                   listener, handlers, reader, stdinClosed, saveCalls>>

\* Mutant of Validate: the password grant is chosen when either of Username and
\* Password is given.
Validate_Either ==
    /\ pc = "validate"
    /\ \E ok \in BOOLEAN :
          IF ~ok THEN Return("validate") /\ command' = command
          ELSE /\ err' = err
               /\ pc' = IF command.Username # "" \/ command.Password # ""
                        THEN "passwordGrant" ELSE "authCodeGrant"
               /\ command' = Forgotten
    /\ UNCHANGED <<flyTarget, args, port, tokenStr, tokenType, tokenValue, accepted, grantCalls,
                   listener, handlers, reader, stdinClosed, stdout, saveCalls>>

\* target.ValidateWithWarningOnly(), then the choice of the grant.  Username and
\* Password are not read again after the choice (passwordGrant gets them as
\* arguments), and the model forgets them here: runs that differ only in them
\* are one run from here on.
Validate ==
    /\ pc = "validate"
    /\ \E ok \in BOOLEAN :
          IF ~ok THEN Return("validate") /\ command' = command
          ELSE /\ err' = err
               /\ pc' = IF command.Username # "" /\ command.Password # ""
                        THEN "passwordGrant" ELSE "authCodeGrant"
               /\ command' = Forgotten
    /\ UNCHANGED <<flyTarget, args, port, tokenStr, tokenType, tokenValue, accepted, grantCalls,
                   listener, handlers, reader, stdinClosed, stdout, saveCalls>>

\* Mutant of PasswordGrant: Execute does not return on the error of the grant.
PasswordGrant_NoReturn ==
    /\ pc = "passwordGrant"
    /\ grantCalls' = grantCalls + 1
    /\ \/ /\ err' = "grant rejected"
          /\ pc' = "blank"
          /\ UNCHANGED <<tokenType, tokenValue>>
       \/ \E t \in GrantStrings, a \in GrantStrings :
             /\ tokenType' = t
             /\ tokenValue' = a
             /\ pc' = "blank"
             /\ err' = err
    /\ UNCHANGED <<inputVars, port, tokenStr, accepted, listener, handlers, reader,
                   stdinClosed, stdout, saveCalls>>

\* command.passwordGrant: one call of client.PasswordGrant.
PasswordGrant ==
    /\ pc = "passwordGrant"
    /\ grantCalls' = grantCalls + 1
    /\ \/ /\ Return("grant rejected")
          /\ UNCHANGED <<tokenType, tokenValue>>
       \/ \E t \in GrantStrings, a \in GrantStrings :
             /\ tokenType' = t
             /\ tokenValue' = a
             /\ pc' = "blank"
             /\ err' = err
    /\ UNCHANGED <<inputVars, port, tokenStr, accepted, listener, handlers, reader,
                   stdinClosed, stdout, saveCalls>>

\* ---------------------------------------------------------- authCodeGrant

\* go listenForTokenCallback(...)
StartListener ==
    /\ pc = "authCodeGrant"
    /\ pc' = "awaitPort"
    /\ listener' = [listener EXCEPT !.pc = "listen"]
    /\ UNCHANGED <<inputVars, err, port, tokenStr, tokenType, tokenValue, accepted,
                   grantCalls, handlers, reader, stdinClosed, stdout, saveCalls>>

\* Mutant of ReceivePort: the main flow reads the port without waiting for the
\* listener to report it.
ReceivePort_NoWait ==
    /\ pc = "awaitPort"
    /\ port' = listener.port
    /\ pc' = "printURL"
    /\ listener' = IF listener.pc = "sendPort"
                   THEN [listener EXCEPT !.pc = "serving"] ELSE listener
    /\ UNCHANGED <<inputVars, err, tokenStr, tokenType, tokenValue, accepted, grantCalls,
                   handlers, reader, stdinClosed, stdout, saveCalls>>

\* port := <-portChannel, with the listener's portChannel <- port.
ReceivePort ==
    /\ pc = "awaitPort"
    /\ listener.pc = "sendPort"
    /\ port' = listener.port
    /\ pc' = "printURL"
    /\ listener' = [listener EXCEPT !.pc = "serving"]
    /\ UNCHANGED <<inputVars, err, tokenStr, tokenType, tokenValue, accepted, grantCalls,
                   handlers, reader, stdinClosed, stdout, saveCalls>>

PrintLoginURL ==
    /\ pc = "printURL"
    /\ stdout' = [stdout EXCEPT !.url = LoginURL(TargetURL, port)]
    /\ pc' = "startReader"
    /\ UNCHANGED <<inputVars, err, port, tokenStr, tokenType, tokenValue, accepted,
                   grantCalls, listener, handlers, reader, stdinClosed, saveCalls>>

\* go waitForTokenInput(stdinChannel, errorChannel)
StartReader ==
    /\ pc = "startReader"
    /\ pc' = "select"
    /\ reader' = [reader EXCEPT !.pc = "prompt"]
    /\ UNCHANGED <<inputVars, err, port, tokenStr, tokenType, tokenValue, accepted,
                   grantCalls, listener, handlers, stdinClosed, stdout, saveCalls>>

\* Mutant of SelectToken: the token channel has a buffer, so a handler's send
\* completes with no receiver once the select is over.
SelectToken_Buffered(i) ==
    /\ handlers[i].pc = "send"
    /\ handlers' = [handlers EXCEPT ![i].pc = "redirect"]
    /\ IF pc = "select"
       THEN /\ tokenStr' = handlers[i].token
            /\ accepted' = Append(accepted, "token")
            /\ pc' = "split"
       ELSE /\ accepted # << >>
            /\ UNCHANGED <<tokenStr, accepted, pc>>
    /\ UNCHANGED <<inputVars, err, port, tokenType, tokenValue, grantCalls, listener,
                   reader, stdinClosed, stdout, saveCalls>>

\* case tokenStrMsg := <-tokenChannel, with handler i's tokenChannel <- token.
SelectToken(i) ==
    /\ pc = "select"
    /\ handlers[i].pc = "send"
    /\ tokenStr' = handlers[i].token
    /\ accepted' = Append(accepted, "token")
    /\ pc' = "split"
    /\ handlers' = [handlers EXCEPT ![i].pc = "redirect"]
    /\ UNCHANGED <<inputVars, err, port, tokenType, tokenValue, grantCalls, listener,
                   reader, stdinClosed, stdout, saveCalls>>

\* Mutant of SelectStdin: the select sits in a loop and the main flow stays at
\* it after taking the reader's token.
SelectStdin_Again ==
    /\ pc = "select"
    /\ reader.pc = "sendToken"
    /\ tokenStr' = JoinToken(reader.tokenType, reader.tokenValue)
    /\ accepted' = Append(accepted, "stdin")
    /\ pc' = "select"
    /\ reader' = [reader EXCEPT !.pc = "done"]
    /\ UNCHANGED <<inputVars, err, port, tokenType, tokenValue, grantCalls, listener,
                   handlers, stdinClosed, stdout, saveCalls>>

\* case tokenStrMsg := <-stdinChannel, with the reader's tokenChannel <- ...; break.
SelectStdin ==
    /\ pc = "select"
    /\ reader.pc = "sendToken"
    /\ tokenStr' = JoinToken(reader.tokenType, reader.tokenValue)
    /\ accepted' = Append(accepted, "stdin")
    /\ pc' = "split"
    /\ reader' = [reader EXCEPT !.pc = "done"]
    /\ UNCHANGED <<inputVars, err, port, tokenType, tokenValue, grantCalls, listener,
                   handlers, stdinClosed, stdout, saveCalls>>

\* case errorMsg := <-errorChannel: return "", "", errorMsg.  The sender is the
\* listener (errorChannel <- err) or the reader (errorChannel <- err; return).
SelectError ==
    /\ pc = "select"
    /\ \/ /\ listener.pc = "sendError"
          /\ Return(listener.err)
          /\ listener' = [listener EXCEPT !.pc = "done"]
          /\ UNCHANGED reader
       \/ /\ reader.pc = "sendError"
          /\ Return(reader.err)
          /\ reader' = [reader EXCEPT !.pc = "done"]
          /\ UNCHANGED listener
    /\ accepted' = Append(accepted, "error")
    /\ UNCHANGED <<inputVars, port, tokenStr, tokenType, tokenValue, grantCalls,
                   handlers, stdinClosed, stdout, saveCalls>>

\* segments := strings.SplitN(tokenStr, " ", 2); return segments[0], segments[1], nil
\* segments[1] is out of range when tokenStr holds no space: the process panics.
SplitToken ==
    /\ pc = "split"
    /\ LET segments == SplitN(tokenStr)
       IN  IF Len(segments) < 2
           THEN /\ pc' = "panicked"
                /\ UNCHANGED <<tokenType, tokenValue>>
           ELSE /\ tokenType' = segments[1]
                /\ tokenValue' = segments[2]
                /\ pc' = "blank"
    /\ UNCHANGED <<inputVars, err, port, tokenStr, accepted, grantCalls, listener,
                   handlers, reader, stdinClosed, stdout, saveCalls>>

\* ------------------------------------------------- Execute, after the grant

\* Mutant of PrintBlank: before going on, Execute looks at the error channel
\* once more and returns an error that waits there.
PrintBlank_RecheckError ==
    /\ pc = "blank"
    /\ IF listener.pc = "sendError"
       THEN /\ Return(listener.err)
            /\ listener' = [listener EXCEPT !.pc = "done"]
            /\ stdout' = stdout
       ELSE /\ stdout' = [stdout EXCEPT !.blank = TRUE]
            /\ pc' = "save"
            /\ UNCHANGED <<err, listener>>
    /\ UNCHANGED <<inputVars, port, tokenStr, tokenType, tokenValue, accepted,
                   grantCalls, handlers, reader, stdinClosed, saveCalls>>

\* fmt.Println("")
PrintBlank ==
    /\ pc = "blank"
    /\ stdout' = [stdout EXCEPT !.blank = TRUE]
    /\ pc' = "save"
    /\ UNCHANGED <<inputVars, err, port, tokenStr, tokenType, tokenValue, accepted,
                   grantCalls, listener, handlers, reader, stdinClosed, saveCalls>>

\* Mutant of SaveTarget: the flow shuts the callback server down when it saves
\* the target.
SaveTarget_Shutdown ==
    /\ pc = "save"
    /\ saveCalls' = Append(saveCalls, [url |-> TargetURL, Type |-> tokenType,
                                       Value |-> tokenValue])
    /\ \E ok \in BOOLEAN :
          IF ok
          THEN Return("nil") /\ stdout' = [stdout EXCEPT !.saved = TRUE]
          ELSE Return("save failed") /\ stdout' = stdout
    /\ listener' = IF listener.pc = "serving"
                   THEN [listener EXCEPT !.pc = "sendError", !.err = "serve"]
                   ELSE listener
    /\ UNCHANGED <<inputVars, port, tokenStr, tokenType, tokenValue, accepted, grantCalls,
                   handlers, reader, stdinClosed>>

\* command.saveTarget: rc.SaveTarget, then "target saved".
SaveTarget ==
    /\ pc = "save"
    /\ saveCalls' = Append(saveCalls, [url |-> TargetURL, Type |-> tokenType,
                                       Value |-> tokenValue])
    /\ \E ok \in BOOLEAN :
          IF ok
          THEN Return("nil") /\ stdout' = [stdout EXCEPT !.saved = TRUE]
          ELSE Return("save failed") /\ stdout' = stdout
    /\ UNCHANGED <<inputVars, port, tokenStr, tokenType, tokenValue, accepted, grantCalls,
                   listener, handlers, reader, stdinClosed>>

\* ------------------------------------------------- listenForTokenCallback

\* Mutant of Listen: the port is sent on portChannel before the error of
\* net.Listen is looked at.
Listen_ReportFirst ==
    /\ listener.pc = "listen"
    /\ \/ \E p \in Ports :
             listener' = [listener EXCEPT !.pc = "sendPort", !.port = p]
       \/ listener' = [listener EXCEPT !.pc = "sendPort", !.err = "bind"]
    /\ UNCHANGED <<inputVars, mainVars, handlers, reader, stdinClosed, stdout, saveCalls>>

\* listenAndServeWithPort: net.Listen("tcp", "127.0.0.1:0").  On an error the
\* function returns it and listenForTokenCallback goes to errorChannel <- err.
Listen ==
    /\ listener.pc = "listen"
    /\ \/ \E p \in Ports :
             listener' = [listener EXCEPT !.pc = "sendPort", !.port = p]
       \/ listener' = [listener EXCEPT !.pc = "sendError", !.err = "bind"]
    /\ UNCHANGED <<inputVars, mainVars, handlers, reader, stdinClosed, stdout, saveCalls>>

\* srv.Serve returns an error: errorChannel <- err is next.
ServeFails ==
    /\ listener.pc = "serving"
    /\ listener' = [listener EXCEPT !.pc = "sendError", !.err = "serve"]
    /\ UNCHANGED <<inputVars, mainVars, handlers, reader, stdinClosed, stdout, saveCalls>>

\* srv.Serve accepts a request and runs the handler in a goroutine of its own;
\* the handler's first statement is tokenChannel <- r.FormValue("token").  A
\* further request is a duplicate of the first: it carries the same token.
Callback ==
    /\ listener.pc = "serving"
    /\ Len(handlers) < MaxRequests
    /\ \E t \in FormValues :
          /\ handlers # << >> => t = handlers[1].token
          /\ handlers' = Append(handlers, [pc |-> "send", token |-> t,
                                           response |-> NoResponse])
    /\ UNCHANGED <<inputVars, mainVars, listener, reader, stdinClosed, stdout, saveCalls>>

\* http.Redirect(w, r, targetUrl + "/public/fly_success", StatusTemporaryRedirect)
Redirect(i) ==
    /\ handlers[i].pc = "redirect"
    /\ handlers' = [handlers EXCEPT
                      ![i].pc = "done",
                      ![i].response = [status |-> StatusTemporaryRedirect,
                                       location |-> SuccessURL(TargetURL)]]
    /\ UNCHANGED <<inputVars, mainVars, listener, reader, stdinClosed, stdout, saveCalls>>

\* --------------------------------------------------------- waitForTokenInput

\* fmt.Printf("or enter token manually: ")
Prompt ==
    /\ reader.pc = "prompt"
    /\ stdout.prompts < MaxPrompts
    /\ stdout' = [stdout EXCEPT !.prompts = @ + 1]
    /\ reader' = [reader EXCEPT !.pc = "scan"]
    /\ UNCHANGED <<inputVars, mainVars, listener, handlers, stdinClosed, saveCalls>>

\* count, err := fmt.Scanf("%s %s", &tokenType, &tokenValue) returns, on the next
\* line of standard input or on its end.  After the end there is only the end.
Scan(inputs) ==
    /\ reader.pc = "scan"
    /\ \E in \in inputs :
          /\ stdinClosed => (in.chars = << >> /\ in.term = "EOF")
          /\ stdinClosed' = (in.term = "EOF")
          /\ LET r == Scanf(in)
             IN  reader' = [pc |-> "scanned", in |-> in, count |-> r.count, err |-> r.err,
                            tokenType |-> r.tokenType, tokenValue |-> r.tokenValue]
    /\ UNCHANGED <<inputVars, mainVars, listener, handlers, stdout, saveCalls>>

\* Mutant of AfterScan: only a scan that read nothing gets the hint.
AfterScan_OnlyEmpty ==
    /\ reader.pc = "scanned"
    /\ IF reader.err # "nil"
       THEN IF reader.count = 0
            THEN /\ stdout' = [stdout EXCEPT !.hints = @ + 1]
                 /\ reader' = [NewReader EXCEPT !.pc = "prompt"]
            ELSE /\ reader' = [reader EXCEPT !.pc = "sendError", !.in = NoInput]
                 /\ stdout' = stdout
       ELSE /\ reader' = [reader EXCEPT !.pc = "sendToken", !.in = NoInput]
            /\ stdout' = stdout
    /\ UNCHANGED <<inputVars, mainVars, listener, handlers, stdinClosed, saveCalls>>

\* The branches after Scanf: the format hint and continue, the error send, or
\* the token send.
AfterScan ==
    /\ reader.pc = "scanned"
    /\ IF reader.err # "nil"
       THEN IF reader.count # 2
            THEN /\ stdout' = [stdout EXCEPT !.hints = @ + 1]
                 /\ reader' = [NewReader EXCEPT !.pc = "prompt"]
            ELSE /\ reader' = [reader EXCEPT !.pc = "sendError", !.in = NoInput]
                 /\ stdout' = stdout
       ELSE /\ reader' = [reader EXCEPT !.pc = "sendToken", !.in = NoInput]
            /\ stdout' = stdout
    /\ UNCHANGED <<inputVars, mainVars, listener, handlers, stdinClosed, saveCalls>>

\* ------------------------------------------------------------ specification

Next ==
    \/ ResolveTarget
    \/ CheckArgs
    \/ Validate
    \/ PasswordGrant
    \/ StartListener
    \/ ReceivePort
    \/ PrintLoginURL
    \/ StartReader
    \/ \E i \in DOMAIN handlers : SelectToken(i)
    \/ SelectStdin
    \/ SelectError
    \/ SplitToken
    \/ PrintBlank
    \/ SaveTarget
    \/ Listen
    \/ ServeFails
    \/ Callback
    \/ \E i \in DOMAIN handlers : Redirect(i)
    \/ Prompt
    \/ Scan(SampleInputs)
    \/ AfterScan

Spec == Init /\ [][Next]_vars

\* The steps the Go scheduler owes each goroutine.  What the world does (a
\* request arriving, the server failing, the operator typing) is owed nothing.
MainStep ==
    \/ ResolveTarget
    \/ CheckArgs
    \/ Validate
    \/ PasswordGrant
    \/ StartListener
    \/ ReceivePort
    \/ PrintLoginURL
    \/ StartReader
    \/ \E i \in DOMAIN handlers : SelectToken(i)
    \/ SelectStdin
    \/ SelectError
    \/ SplitToken
    \/ PrintBlank
    \/ SaveTarget

Fairness ==
    /\ WF_vars(MainStep)
    /\ WF_vars(Listen)
    /\ WF_vars(\E i \in DOMAIN handlers : Redirect(i))
    /\ WF_vars(Prompt \/ AfterScan)

FairSpec == Spec /\ Fairness

\* waitForTokenInput on every line up to MaxLineLen, from the state in which
\* authCodeGrant starts it: the listener serves, the login URL is printed, the
\* main flow stands at its select.  No request arrives and the server holds.
InitReader ==
    /\ flyTarget = "ci"
    /\ args = << >>
    /\ command = Forgotten
    /\ pc = "select"
    /\ err = "nil"
    /\ port \in Ports
    /\ tokenStr = << >>
    /\ tokenType = << >>
    /\ tokenValue = << >>
    /\ accepted = << >>
    /\ grantCalls = 0
    /\ listener = [pc |-> "serving", port |-> port, err |-> "nil"]
    /\ handlers = << >>
    /\ reader = [NewReader EXCEPT !.pc = "prompt"]
    /\ stdinClosed = FALSE
    /\ stdout = [team |-> TRUE, url |-> LoginURL(TargetURL, port), prompts |-> 0,
                 hints |-> 0, blank |-> FALSE, saved |-> FALSE]
    /\ saveCalls = << >>

NextReader ==
    \/ Prompt
    \/ Scan(Inputs)
    \/ AfterScan
    \/ SelectStdin
    \/ SplitToken
    \/ PrintBlank
    \/ SaveTarget

ReaderSpec == InitReader /\ [][NextReader]_vars

\* ------------------------------------------------------------------ claims

\* The sends on the token, stdin and error channels that a receive has taken.
CompletedSends ==
    Cardinality({i \in DOMAIN handlers : handlers[i].pc # "send"})
    + (IF reader.pc = "done" THEN 1 ELSE 0)
    + (IF listener.pc = "done" THEN 1 ELSE 0)

\* authCodeGrant has left its select.
PastSelect == reader.pc # "idle" /\ pc # "select"

\* C1: the race yields at most one outcome.  The select takes at most one case,
\* exactly one once the main flow is past it; exactly that one send has been
\* received and every other producer is still waiting to be received; and
\* SaveTarget is called at most once, with the credential split from the string
\* the select took.
C1_SingleOutcome ==
    /\ Len(accepted) <= 1
    /\ CompletedSends = Len(accepted)
    /\ PastSelect => Len(accepted) = 1
    /\ Len(saveCalls) <= 1
    /\ (saveCalls # << >> /\ accepted # << >>) =>
          /\ accepted[1] # "error"
          /\ saveCalls[1].Type = SplitN(tokenStr)[1]
          /\ saveCalls[1].Value = SplitN(tokenStr)[2]

\* Both producers have produced, the callback was taken, the reader's token is
\* left unreceived, and the target was saved once.
C1_Witness ==
    /\ accepted = <<"token">>
    /\ reader.pc = "sendToken"
    /\ Len(saveCalls) = 1

\* C2: the login URL is printed only after the main flow has received the port
\* from the listener, and the port in it is the port the listener bound.
C2_URLEmbedsBoundPort ==
    /\ stdout.url # << >> =>
          /\ listener.pc \notin {"idle", "listen", "sendPort"}
          /\ listener.port \in Ports
          /\ port = listener.port
          /\ stdout.url = <<TargetURL, "/sky/login?redirect=", "http://127.0.0.1:",
                            listener.port, "/auth/callback">>
    /\ pc = "printURL" => (port = listener.port /\ port \in Ports)

C2_Witness ==
    /\ stdout.url # << >>
    /\ listener.port = "49153"

\* C3: when the listener fails to bind, authCodeGrant returns that error.  (No
\* port is published, no URL is printed, the reader is not started and the
\* select is not entered: C3_BindFailureQuiet.)
C3_BindFailureSurfaced ==
    (listener.pc = "sendError" /\ listener.err = "bind") ~> (pc = "returned" /\ err = "bind")

\* The part of C3 that the code keeps: after a bind failure nothing of the race
\* happens.
C3_BindFailureQuiet ==
    listener.err = "bind" =>
        /\ port = ""
        /\ listener.port = ""
        /\ stdout.url = << >>
        /\ reader.pc = "idle"
        /\ pc = "awaitPort"

RECURSIVE Tokens(_)
\* The whitespace-separated tokens of a line: its maximal runs of non-spaces.
Tokens(s) ==
    IF s = << >> THEN << >>
    ELSE IF Head(s) = " " THEN Tokens(Tail(s))
    ELSE LET rest == Tokens(Tail(s))
         IN  IF Len(s) > 1 /\ s[2] # " "
             THEN <<(<<Head(s)>> \o rest[1])>> \o Tail(rest)
             ELSE <<(<<Head(s)>>)>> \o rest

HasSpace(s) == \E k \in 1..Len(s) : s[k] = " "

\* The reader has just scanned a line of exactly two tokens, the race being
\* undecided.
ScannedTwoTokens ==
    /\ pc = "select"
    /\ reader.pc = "scanned"
    /\ reader.in.term = "NL"
    /\ Len(Tokens(reader.in.chars)) = 2

\* SaveTarget was called, once, with the credential the reader scanned.
SavedReaderCredential ==
    saveCalls = <<[url |-> TargetURL, Type |-> reader.tokenType,
                   Value |-> reader.tokenValue]>>

\* C4 as stated: with no callback ever received, a valid two-token line leads
\* to SaveTarget being called with the credential (kind, value) of the line.
C4_ManualInputPersists ==
    [](handlers = << >>) =>
        /\ [](ScannedTwoTokens =>
                /\ reader.tokenType = Tokens(reader.in.chars)[1]
                /\ reader.tokenValue = Tokens(reader.in.chars)[2])
        /\ ScannedTwoTokens ~> SavedReaderCredential

\* C4 as amended: the same, in the runs in which the listener also does not
\* fail while it serves.
C4_ManualInputPersistsWhileServing ==
    ([](handlers = << >>) /\ [](listener.pc # "sendError")) =>
        /\ [](ScannedTwoTokens =>
                /\ reader.tokenType = Tokens(reader.in.chars)[1]
                /\ reader.tokenValue = Tokens(reader.in.chars)[2])
        /\ ScannedTwoTokens ~> SavedReaderCredential

C4_Witness ==
    /\ handlers = << >>
    /\ listener.pc = "serving"
    /\ accepted = <<"stdin">>
    /\ saveCalls = <<[url |-> TargetURL, Type |-> <<"a">>, Value |-> <<"a", "a">>]>>

\* C5: the password grant is chosen exactly when Username and Password are both
\* non-empty; it is one call of PasswordGrant whose result goes straight to the
\* credential or to the error, with no listener, port, login URL or reader; and
\* the race path never calls PasswordGrant.
C5_GrantChoice ==
    /\ [][(pc = "validate" /\ pc' \notin {"validate", "returned"}) =>
            /\ pc' \in {"passwordGrant", "authCodeGrant"}
            /\ pc' = "passwordGrant" <=> (command.Username # "" /\ command.Password # "")]_vars
    /\ [][(pc = "passwordGrant" /\ pc' # pc) =>
            (grantCalls' = 1 /\ pc' \in {"blank", "returned"})]_vars
    /\ [](grantCalls <= 1)
    /\ []((pc = "passwordGrant" \/ grantCalls = 1) =>
            /\ listener.pc = "idle"
            /\ handlers = << >>
            /\ port = ""
            /\ stdout.url = << >>
            /\ stdout.prompts = 0
            /\ reader.pc = "idle"
            /\ accepted = << >>)
    /\ []((pc \in {"authCodeGrant", "awaitPort"} \/ listener.pc # "idle") => grantCalls = 0)

C5_Witness ==
    /\ grantCalls = 1
    /\ saveCalls # << >>

\* C6: SaveTarget is called only with a credential obtained: the flow reaches
\* the call with no error and with the credential of a successful grant or of
\* a race that took a token, and a run that returned any error other than the
\* one of saving has saved nothing.
C6_SaveOnlyWithCredential ==
    /\ pc \in {"blank", "save"} =>
          /\ err = "nil"
          /\ grantCalls = 1 \/ (accepted \in {<<"token">>, <<"stdin">>})
    /\ saveCalls # << >> =>
          /\ pc = "returned"
          /\ err \in {"nil", "save failed"}
          /\ stdout.blank
          /\ saveCalls = <<[url |-> TargetURL, Type |-> tokenType, Value |-> tokenValue]>>
    /\ (pc = "panicked" \/ (pc = "returned" /\ err \notin {"nil", "save failed"})) =>
          /\ saveCalls = << >>
          /\ ~stdout.saved

C6_Witness ==
    /\ pc = "returned"
    /\ err \in {"grant rejected", "serve"}
    /\ saveCalls = << >>

\* C7: at the end of standard input with no token read, the reader goes to
\* send the error on the error channel and stops.
C7_EOFEmitsError ==
    [][(/\ reader.pc = "scanned"
        /\ reader.in.term = "EOF"
        /\ Tokens(reader.in.chars) = << >>
        /\ reader' # reader) => reader'.pc = "sendError"]_vars

\* C8: after a line of exactly two tokens the reader goes to send
\* Credential(kind, value), the two tokens of the line; from then on it prints
\* no prompt and no hint and keeps that credential; its send, when the select
\* takes it, hands over "kind value", once; and that is the credential
\* authCodeGrant returns.
C8_TwoTokensOneCredential ==
    /\ [][(reader.pc = "scanned" /\ Len(Tokens(reader.in.chars)) = 2 /\ reader' # reader) =>
            /\ reader'.pc = "sendToken"
            /\ reader'.tokenType = Tokens(reader.in.chars)[1]
            /\ reader'.tokenValue = Tokens(reader.in.chars)[2]
            /\ stdout' = stdout]_vars
    /\ [][reader.pc \in {"sendToken", "done"} =>
            /\ reader'.pc \in {"sendToken", "done"}
            /\ reader'.tokenType = reader.tokenType
            /\ reader'.tokenValue = reader.tokenValue
            /\ stdout'.prompts = stdout.prompts
            /\ stdout'.hints = stdout.hints]_vars
    /\ [][(reader.pc = "sendToken" /\ reader'.pc = "done") =>
            /\ tokenStr' = reader.tokenType \o <<" ">> \o reader.tokenValue
            /\ accepted' = <<"stdin">>]_vars
    /\ [](reader.pc = "done" => accepted = <<"stdin">>)
    /\ []((accepted = <<"stdin">> /\ pc \in {"blank", "save", "returned"}) =>
            (tokenType = reader.tokenType /\ tokenValue = reader.tokenValue))

C8_Witness ==
    /\ reader.pc = "done"
    /\ pc = "returned"
    /\ tokenType = <<"a">>
    /\ tokenValue = <<"a", "a">>

\* C9: after a line of no token or one token the reader prints the format hint
\* and is back at its prompt; nothing is sent for that line, neither a
\* credential nor an error.
C9_MalformedLineReprompts ==
    [][(/\ reader.pc = "scanned"
        /\ reader.in.term = "NL"
        /\ Len(Tokens(reader.in.chars)) <= 1
        /\ reader' # reader) =>
            /\ reader'.pc = "prompt"
            /\ stdout'.hints = stdout.hints + 1
            /\ accepted' = accepted
            /\ tokenStr' = tokenStr
            /\ pc' = pc]_vars

\* A hint was printed and the reader has prompted again.
C9_Witness ==
    /\ stdout.hints = 1
    /\ stdout.prompts = 2
    /\ reader.pc = "scan"
    /\ ~stdinClosed

\* C10: a callback whose token is "<kind> <value>" and which the select takes
\* makes authCodeGrant return Credential(kind, value), kind being what stands
\* before the first space; and the response a handler sends is a temporary
\* redirect (307) to <target>/public/fly_success.
C10_CallbackCredential ==
    \A i \in DOMAIN handlers :
        /\ handlers[i].pc = "done" =>
              handlers[i].response =
                  [status |-> 307, location |-> <<TargetURL, "/public/fly_success">>]
        /\ handlers[i].pc # "done" => handlers[i].response = NoResponse
        /\ (handlers[i].pc # "send" /\ HasSpace(handlers[i].token)) =>
              /\ tokenStr = handlers[i].token
              /\ pc \in {"split", "blank", "save", "returned"}
              /\ pc = "returned" => err \in {"nil", "save failed"}
              /\ pc # "split" =>
                    /\ tokenType \o <<" ">> \o tokenValue = handlers[i].token
                    /\ ~HasSpace(tokenType)

C10_Witness ==
    \E i \in DOMAIN handlers :
        /\ handlers[i].pc = "done"
        /\ handlers[i].token = <<"a", " ", "a">>
        /\ saveCalls = <<[url |-> TargetURL, Type |-> <<"a">>, Value |-> <<"a">>]>>

\* C11: every credential handed to SaveTarget has a non-empty kind and a
\* non-empty value, whichever path produced it.
C11_CredentialNonEmpty ==
    \A k \in DOMAIN saveCalls :
        /\ saveCalls[k].Type # << >>
        /\ saveCalls[k].Value # << >>

\* C12: when the select of authCodeGrant has taken a credential or an error,
\* the login URL and the manual-input prompt have both been printed.
C12_PrintedBeforeResolution ==
    accepted # << >> =>
        /\ stdout.url # << >>
        /\ stdout.prompts >= 1

\* The part of C12 that the code keeps: the login URL is printed before the
\* select is reached.
C12_URLBeforeResolution ==
    (pc = "select" \/ accepted # << >>) => stdout.url # << >>

\* C13: the listener reports its port once, after a successful bind and before
\* it serves any request, and never again; the main flow takes the port once,
\* from that report; after a failed bind no port is reported.
C13_PortReportedOnce ==
    /\ []((listener.pc = "serving" \/ handlers # << >>) =>
            (port \in Ports /\ port = listener.port))
    /\ [](listener.err = "bind" =>
            (listener.pc \in {"sendError", "done"} /\ listener.port = "" /\ port = ""))
    /\ [][/\ port' # port =>
               /\ port = ""
               /\ pc = "awaitPort"
               /\ listener.pc = "sendPort"
               /\ port' = listener.port
          /\ (pc = "awaitPort" /\ pc' # pc) => (pc' = "printURL" /\ port' \in Ports)
          /\ (listener.pc = "sendPort" /\ listener' # listener) =>
               (listener'.pc = "serving" /\ port' = listener.port)
          /\ listener'.pc = "sendPort" => listener.pc \in {"listen", "sendPort"}
          /\ listener.port # "" => listener'.port = listener.port]_vars

\* The port was reported and taken, and the listener has served a request.
C13_Witness ==
    /\ port \in Ports
    /\ listener.pc = "serving"
    /\ handlers # << >>
    /\ pc = "returned"

\* C14: while standard input stays open, a line that does not hold exactly two
\* tokens (none, one, three or more) makes the reader print the format hint
\* and prompt again; nothing goes to the error channel for it.
C14_MalformedNeverFatal ==
    [][(/\ reader.pc = "scanned"
        /\ reader.in.term = "NL"
        /\ Len(Tokens(reader.in.chars)) # 2
        /\ reader' # reader) =>
            /\ reader'.pc = "prompt"
            /\ stdout'.hints = stdout.hints + 1]_vars

\* The part of C14 that the code keeps: no line read while standard input is
\* open sends the reader to the error channel.
C14_NoLineIsFatal ==
    [][(reader.pc = "scanned" /\ reader.in.term = "NL" /\ reader' # reader) =>
            reader'.pc \in {"prompt", "sendToken"}]_vars

\* C15: every request the listener serves has its handler run to completion,
\* the temporary redirect sent: the first request, a duplicate, and one that
\* arrives when the select has already taken another outcome.
C15_HandlersComplete ==
    \A i \in 1..MaxRequests :
        (Len(handlers) >= i) ~> (Len(handlers) >= i /\ handlers[i].pc = "done")

\* C16: once the select has taken a credential, a failure of srv.Serve changes
\* nothing: the error is never received and never returned, and Execute goes
\* on to save the credential that was taken.
C16_LateServeFailureIgnored ==
    /\ []((accepted # << >> /\ accepted[1] # "error") =>
            (listener.pc # "done" /\ err \notin {"serve", "bind"}))
    /\ (accepted # << >> /\ accepted[1] # "error" /\ HasSpace(tokenStr)
           /\ listener.pc = "sendError")
         ~> (/\ pc = "returned"
             /\ Len(saveCalls) = 1
             /\ saveCalls[1].Type \o <<" ">> \o saveCalls[1].Value = tokenStr
             /\ listener.pc = "sendError")

\* The server failed, its error waits unreceived, and the credential the
\* select took from a callback was saved.
C16_Witness ==
    /\ accepted = <<"token">>
    /\ listener.pc = "sendError"
    /\ listener.err = "serve"
    /\ pc = "returned"
    /\ err = "nil"
    /\ Len(saveCalls) = 1

\* C17: each producer writes to its own channel at most once: the token
\* channel sees at most one send attempt, the handlers' being the listener's,
\* and the error channel is not written by the reader as well as the listener.
C17_OneWritePerProducer ==
    /\ Len(handlers) <= 1
    /\ ~(reader.pc = "sendError" /\ listener.pc \in {"sendError", "done"})

\* C18: nothing the flow does stops the listener.  Serving ends only when
\* srv.Serve itself fails, a step that is none of the main flow's; a listener
\* that serves when the select has resolved keeps its port and still takes
\* requests, through persistence and after Execute has returned.
C18_ListenerNeverClosed ==
    /\ [][(listener.pc = "serving" /\ listener' # listener) =>
            /\ listener' = [listener EXCEPT !.pc = "sendError", !.err = "serve"]
            /\ UNCHANGED <<mainVars, stdout, saveCalls>>]_vars
    /\ []((accepted # << >> /\ listener.pc = "serving") =>
            /\ listener.port = port
            /\ Len(handlers) < MaxRequests => ENABLED Callback)

\* The select took the operator's line, the credential was saved, Execute has
\* returned, and the listener serves on, holding a request.
C18_Witness ==
    /\ accepted = <<"stdin">>
    /\ pc = "returned"
    /\ Len(saveCalls) = 1
    /\ listener.pc = "serving"
    /\ handlers # << >>

\* C19: whatever token string the select receives from a callback, splitting
\* it never crashes the process.
C19_SplitNeverCrashes == pc # "panicked"

\* C20: once the select has resolved, no later result is applied: a producer
\* standing at a send stays there, and the accepted outcome, the received
\* string, the returned error and the saved credential no longer change.
C20_LateResultDiscarded ==
    [][accepted # << >> =>
         /\ accepted' = accepted
         /\ tokenStr' = tokenStr
         /\ reader.pc \in {"sendToken", "sendError"} => reader' = reader
         /\ listener.pc = "sendError" => listener' = listener
         /\ \A i \in DOMAIN handlers :
                handlers[i].pc = "send" => handlers'[i] = handlers[i]
         /\ pc \in {"blank", "save", "returned"} =>
                (tokenType' = tokenType /\ tokenValue' = tokenValue)
         /\ saveCalls # << >> => saveCalls' = saveCalls
         /\ pc = "returned" => (pc' = pc /\ err' = err)]_vars

\* The operator's line won; a callback handler and the failed server both
\* stand at their sends after Execute has returned.
C20_Witness ==
    /\ accepted = <<"stdin">>
    /\ pc = "returned"
    /\ listener.pc = "sendError"
    /\ \E i \in DOMAIN handlers : handlers[i].pc = "send"

====
